---------------------------- MODULE Spec2Model ----------------------------
(***************************************************************************)
(* gdata.contacts.service: the ContactsService client and its query        *)
(* builders.  One client (server, contact_list) is driven through a        *)
(* bounded sequence of method calls.  Every method is one action; the      *)
(* transport it delegates to (GDataService.Get/Post/Put/Delete) answers    *)
(* each request with a nondeterministically chosen HTTP response.          *)
(* URIs are strings and are built, compared and cut character by           *)
(* character, as the Python code does.                                     *)
(***************************************************************************)
EXTENDS Integers, Sequences, FiniteSets, TLC

VARIABLES server, contact_list, call, sent, response, outcome, query,
          nCalls, nRequests, nResolved, nUnchecked

\* server, contact_list: the client's configuration, set by the constructor.
\* call:      the last method called on the client, with its arguments.
\* sent:      the transport requests that call issued, in order.
\* response:  what the transport reported for the last of them.
\* outcome:   how the call ended: a return value or a raised error.
\* query:     the query object constructed last.
\* nCalls:    calls made so far.
\* nRequests: transport requests issued so far.
\* nResolved, nUnchecked: history counters of the calls made, for the
\*            properties: see TargetResolves and PassesEmptyUri.
vars == <<server, contact_list, call, sent, response, outcome, query,
          nCalls, nRequests, nResolved, nUnchecked>>

\* Number of calls (client methods and query constructors) in one behaviour.
MaxCalls == 2

---------------------------------------------------------------------------
(* Python values *)

\* Python's None, where an optional string argument is omitted.
None == "<None>"

\* Truth value of an optional string: None and '' are false.
Truthy(x) == x # None /\ x # ""

\* str.startswith
StartsWith(s, p) == Len(s) >= Len(p) /\ SubSeq(s, 1, Len(p)) = p

\* s[n:]
SliceFrom(s, n) == SubSeq(s, n + 1, Len(s))

\* A link element of an entry (it has an href), or no link at all (the
\* lookup's None).
NoLink == [present |-> FALSE, href |-> ""]

Link(h) == [present |-> TRUE, href |-> h]

\* ContactEntry.GetPhotoLink(): the entry's photo link, or None.
GetPhotoLink(entry) == entry.photo_link

\* ContactEntry.GetPhotoEditLink(): the entry's photo edit link, or None.
GetPhotoEditLink(entry) == entry.photo_edit_link

---------------------------------------------------------------------------
(* Module constants *)

DEFAULT_BATCH_URL == "http://www.google.com/m8/feeds/contacts/default/full" \o "/batch"

DEFAULT_PROFILES_BATCH_URL == "http://www.google.com" \o "/m8/feeds/profiles/default/full/batch"

---------------------------------------------------------------------------
(* Inputs *)

Servers == {"www.google.com", "example.org"}

ContactLists == {"default", "joe@example.org"}

Kinds == {"contacts", "groups", "profiles"}

ListArgs == {None, "", "liz@example.org"}

Projections == {"full", "base/12345"}

Schemes == {None, "", "http", "https"}

\* Optional feed URIs of the list and create calls.
FeedUris == {None, "", "/m8/feeds/contacts/liz@example.org/base"}

\* Optional feed paths handed to the query constructors.
QueryFeeds == {None, "/m8/feeds/profiles/domain/example.org/full"}

EntryPath == "/m8/feeds/contacts/default/full/1"

\* Entry URIs handed to the get calls.
EntryUris == {"", EntryPath}

\* Edit URIs as a server may issue them, for the configured host.
EditUris ==
  { "",
    EntryPath,
    "http://" \o server,
    "http://" \o server \o EntryPath,
    "https://" \o server \o EntryPath,
    "http://" \o server \o ":8080" \o EntryPath,
    "http://" \o server \o ".example.net" \o EntryPath,
    "http://contacts.example.net" \o EntryPath }

Hrefs == {"", "/m8/feeds/photos/media/default/1"}

Links == {NoLink} \cup {Link(h) : h \in Hrefs}

\* contact_entry_or_url: a ContactEntry, or a URL string.
PhotoTargets ==
  {[isEntry |-> TRUE, photo_link |-> p, photo_edit_link |-> e] :
      p \in Links, e \in Links}
  \cup {[isEntry |-> FALSE, url |-> u] : u \in Hrefs}

\* media: a gdata.MediaSource, a file-like object, or a file name.
Medias == {"MediaSource", "file", "filename"}

BatchUrls == {"", DEFAULT_BATCH_URL, DEFAULT_PROFILES_BATCH_URL}

BatchConverters == {"ContactsFeedFromString", "ProfilesFeedFromString"}

Groups == {None, "/m8/feeds/groups/default/base/6"}

\* What the transport may report for one request.
Responses ==
  { [status |-> 200, reason |-> "OK", body |-> "<ok/>"],
    [status |-> 404, reason |-> "Not Found", body |-> "no such entry"],
    [status |-> 503, reason |-> "Service Unavailable", body |-> ""] }

NoResponse == [status |-> 0, reason |-> "", body |-> ""]

---------------------------------------------------------------------------
(* How a call ends *)

Returned(converter, body) ==
  [kind |-> "return", converter |-> converter, status |-> 0, reason |-> "",
   body |-> body]

ReturnedNone == Returned("None", "")

Raised(r) ==
  [kind |-> "RequestError", converter |-> "", status |-> r.status,
   reason |-> r.reason, body |-> r.body]

\* An exception raised inside the client before any request (AttributeError
\* on the href of a missing link).
LocalError ==
  [kind |-> "LocalError", converter |-> "", status |-> 0, reason |-> "",
   body |-> ""]

NoOutcome ==
  [kind |-> "none", converter |-> "", status |-> 0, reason |-> "", body |-> ""]

NoQuery == [class |-> "none", feed_arg |-> None, feed |-> "", group |-> None]

---------------------------------------------------------------------------
(* The transport: GDataService.Get / Post / Put / Delete *)

Is2xx(status) == status \div 100 = 2

\* One request: the transport reports a response; a 2xx body goes through
\* the converter, anything else is raised as a request error carrying the
\* response's status, reason and body.
Transport(method, uri, body, converter) ==
  \E r \in Responses :
    /\ sent' = <<[method |-> method, uri |-> uri, body |-> body]>>
    /\ response' = r
    /\ outcome' = IF Is2xx(r.status) THEN Returned(converter, r.body)
                                     ELSE Raised(r)
    /\ nRequests' = nRequests + 1

Get(uri, converter) == Transport("GET", uri, None, converter)

Post(data, uri, converter) == Transport("POST", uri, data, converter)

Put(data, uri, converter) == Transport("PUT", uri, data, converter)

Delete(uri) == Transport("DELETE", uri, None, "HTTPResponse")

\* The call ends without reaching the transport.
NoRequest(result) ==
  /\ sent' = <<>>
  /\ response' = NoResponse
  /\ outcome' = result
  /\ UNCHANGED nRequests

---------------------------------------------------------------------------
(* Bookkeeping of the calls made: the vocabulary of the properties *)

ListOps == {"GetContactsFeed", "GetGroupsFeed", "GetProfilesFeed"}

CreateOps == {"CreateContact", "CreateGroup"}

GetOps == {"GetContact", "GetProfile"}

UpdateOps == {"UpdateContact", "UpdateGroup", "UpdateProfile"}

DeleteOps == {"DeleteContact", "DeleteGroup"}

BatchOps == {"ExecuteBatch", "ExecuteBatchProfiles"}

PhotoOps == {"ChangePhoto", "GetPhoto", "DeletePhoto"}

FacadeOps ==
  ListOps \cup CreateOps \cup GetOps \cup UpdateOps \cup DeleteOps
  \cup BatchOps \cup PhotoOps

\* The href a photo call's entry-or-URL argument names: the URL itself, or
\* the href of the entry's link of that kind (None without such a link).
PhotoHref(target) ==
  IF target.isEntry
    THEN (IF target.photo_link.present THEN target.photo_link.href ELSE None)
    ELSE target.url

PhotoEditHref(target) ==
  IF target.isEntry
    THEN (IF target.photo_edit_link.present THEN target.photo_edit_link.href
                                            ELSE None)
    ELSE target.url

\* The URI a call is aimed at, read off its arguments alone: the URI the
\* caller passes, or the href of the link a photo call looks up in its entry.
TargetUri(c) ==
  CASE c.op \in GetOps \cup UpdateOps \cup DeleteOps \cup BatchOps -> c.uri
    [] c.op = "GetPhoto" -> PhotoHref(c.target)
    [] c.op \in {"ChangePhoto", "DeletePhoto"} -> PhotoEditHref(c.target)
    [] OTHER -> None

\* A call's target URI resolves when its arguments name a non-empty URI; a
\* list or create call falls back on the client's default feed, so its
\* target always resolves.
TargetResolves(c) ==
  \/ c.op \in ListOps \cup CreateOps
  \/ c.op \in FacadeOps /\ Truthy(TargetUri(c))

\* The operations that hand the URI they are given to the transport without
\* testing it.
UncheckedOps == GetOps \cup UpdateOps \cup DeleteOps \cup BatchOps \cup {"ChangePhoto"}

\* The call hands an empty URI to such an operation.
PassesEmptyUri(c) == c.op \in UncheckedOps /\ TargetUri(c) = ""

\* The call c is recorded and counted.
Called(c) ==
  /\ call' = c
  /\ nCalls' = nCalls + 1
  /\ nResolved' = nResolved + (IF TargetResolves(c) THEN 1 ELSE 0)
  /\ nUnchecked' = nUnchecked + (IF PassesEmptyUri(c) THEN 1 ELSE 0)

---------------------------------------------------------------------------
(* ContactsService *)

Init ==
  /\ server \in Servers
  /\ contact_list \in ContactLists
  /\ call = [op |-> "__init__"]
  /\ sent = <<>>
  /\ response = NoResponse
  /\ outcome = NoOutcome
  /\ query = NoQuery
  /\ nCalls = 0
  /\ nRequests = 0
  /\ nResolved = 0
  /\ nUnchecked = 0

\* GetFeedUri without the rewriting of a profiles list to domain/<list>.
GetFeedUri_NoDomain(kind, list_arg, projection, scheme) ==
  LET list1 == IF Truthy(list_arg) THEN list_arg ELSE contact_list
      prefix == IF Truthy(scheme) THEN scheme \o "://" \o server ELSE ""
  IN  prefix \o "/m8/feeds/" \o kind \o "/" \o list1 \o "/" \o projection

GetFeedUri(kind, list_arg, projection, scheme) ==
  LET list1 == IF Truthy(list_arg) THEN list_arg ELSE contact_list
      list2 == IF kind = "profiles" THEN "domain/" \o list1 ELSE list1
      prefix == IF Truthy(scheme) THEN scheme \o "://" \o server ELSE ""
  IN  prefix \o "/m8/feeds/" \o kind \o "/" \o list2 \o "/" \o projection

CleanUri(uri) ==
  LET url_prefix == "http://" \o server
  IN  IF StartsWith(uri, url_prefix) THEN SliceFrom(uri, Len(url_prefix))
                                     ELSE uri

\* A direct call of GetFeedUri: no request, the URI is returned.
CallGetFeedUri ==
  \E kind \in Kinds, list_arg \in ListArgs, projection \in Projections,
     scheme \in Schemes :
    /\ nCalls < MaxCalls
    /\ Called([op |-> "GetFeedUri", kind |-> kind, list_arg |-> list_arg,
               projection |-> projection, scheme |-> scheme])
    /\ NoRequest(Returned("uri", GetFeedUri(kind, list_arg, projection, scheme)))
    /\ UNCHANGED <<server, contact_list, query>>

\* A direct call of _CleanUri.
CallCleanUri ==
  \E uri \in EditUris :
    /\ nCalls < MaxCalls
    /\ Called([op |-> "_CleanUri", uri |-> uri])
    /\ NoRequest(Returned("uri", CleanUri(uri)))
    /\ UNCHANGED <<server, contact_list, query>>

\* GetContactsFeed answering a repeated call from the previous call's result.
GetContactsFeed_Cached ==
  \E uri \in FeedUris :
    /\ nCalls < MaxCalls
    /\ Called([op |-> "GetContactsFeed", uri |-> uri])
    /\ IF call = [op |-> "GetContactsFeed", uri |-> uri]
            /\ outcome.kind = "return"
         THEN NoRequest(outcome)
         ELSE Get(IF Truthy(uri) THEN uri
                                 ELSE GetFeedUri("contacts", None, "full", None),
                  "ContactsFeedFromString")
    /\ UNCHANGED <<server, contact_list, query>>

GetContactsFeed ==
  \E uri \in FeedUris :
    /\ nCalls < MaxCalls
    /\ Called([op |-> "GetContactsFeed", uri |-> uri])
    /\ Get(IF Truthy(uri) THEN uri
                          ELSE GetFeedUri("contacts", None, "full", None),
           "ContactsFeedFromString")
    /\ UNCHANGED <<server, contact_list, query>>

GetContact ==
  \E uri \in EntryUris :
    /\ nCalls < MaxCalls
    /\ Called([op |-> "GetContact", uri |-> uri])
    /\ Get(uri, "ContactEntryFromString")
    /\ UNCHANGED <<server, contact_list, query>>

CreateContact ==
  \E insert_uri \in FeedUris :
    /\ nCalls < MaxCalls
    /\ Called([op |-> "CreateContact", uri |-> insert_uri])
    /\ Post("new_contact",
            IF Truthy(insert_uri)
              THEN insert_uri
              ELSE GetFeedUri("contacts", None, "full", None),
            "ContactEntryFromString")
    /\ UNCHANGED <<server, contact_list, query>>

UpdateContact ==
  \E edit_uri \in EditUris :
    /\ nCalls < MaxCalls
    /\ Called([op |-> "UpdateContact", uri |-> edit_uri])
    /\ Put("updated_contact", CleanUri(edit_uri), "ContactEntryFromString")
    /\ UNCHANGED <<server, contact_list, query>>

\* DeleteContact repeating its request once when the first one fails.
DeleteContact_Retry ==
  \E edit_uri \in EditUris, r1 \in Responses, r2 \in Responses :
    LET req == [method |-> "DELETE", uri |-> CleanUri(edit_uri), body |-> None]
        again == ~Is2xx(r1.status)
        r == IF again THEN r2 ELSE r1
    IN  /\ nCalls < MaxCalls
        /\ Called([op |-> "DeleteContact", uri |-> edit_uri])
        /\ sent' = IF again THEN <<req, req>> ELSE <<req>>
        /\ response' = r
        /\ outcome' = IF Is2xx(r.status) THEN Returned("HTTPResponse", r.body)
                                         ELSE Raised(r)
        /\ nRequests' = nRequests + Len(sent')
        /\ UNCHANGED <<server, contact_list, query>>

DeleteContact ==
  \E edit_uri \in EditUris :
    /\ nCalls < MaxCalls
    /\ Called([op |-> "DeleteContact", uri |-> edit_uri])
    /\ Delete(CleanUri(edit_uri))
    /\ UNCHANGED <<server, contact_list, query>>

GetGroupsFeed ==
  \E uri \in FeedUris :
    /\ nCalls < MaxCalls
    /\ Called([op |-> "GetGroupsFeed", uri |-> uri])
    /\ Get(IF Truthy(uri) THEN uri
                          ELSE GetFeedUri("groups", None, "full", None),
           "GroupsFeedFromString")
    /\ UNCHANGED <<server, contact_list, query>>

\* CreateGroup defaulting to GetFeedUri() instead of GetFeedUri('groups').
CreateGroup_ContactsFeed ==
  \E insert_uri \in FeedUris :
    /\ nCalls < MaxCalls
    /\ Called([op |-> "CreateGroup", uri |-> insert_uri])
    /\ Post("new_group",
            IF Truthy(insert_uri)
              THEN insert_uri
              ELSE GetFeedUri("contacts", None, "full", None),
            "GroupEntryFromString")
    /\ UNCHANGED <<server, contact_list, query>>

CreateGroup ==
  \E insert_uri \in FeedUris :
    /\ nCalls < MaxCalls
    /\ Called([op |-> "CreateGroup", uri |-> insert_uri])
    /\ Post("new_group",
            IF Truthy(insert_uri)
              THEN insert_uri
              ELSE GetFeedUri("groups", None, "full", None),
            "GroupEntryFromString")
    /\ UNCHANGED <<server, contact_list, query>>

UpdateGroup ==
  \E edit_uri \in EditUris :
    /\ nCalls < MaxCalls
    /\ Called([op |-> "UpdateGroup", uri |-> edit_uri])
    /\ Put("updated_group", CleanUri(edit_uri), "GroupEntryFromString")
    /\ UNCHANGED <<server, contact_list, query>>

DeleteGroup ==
  \E edit_uri \in EditUris :
    /\ nCalls < MaxCalls
    /\ Called([op |-> "DeleteGroup", uri |-> edit_uri])
    /\ Delete(CleanUri(edit_uri))
    /\ UNCHANGED <<server, contact_list, query>>

\* The payload ChangePhoto sends: the MediaSource given, or one wrapped
\* around the file handle or the file name.
MediaPayload(media) ==
  CASE media = "MediaSource" -> "MediaSource"
    [] media = "file" -> "MediaSource(file_handle)"
    [] OTHER -> "MediaSource(file_path)"

\* ChangePhoto going on with no URL when the entry has no photo edit link.
ChangePhoto_PutsWithoutLink ==
  \E media \in Medias, target \in PhotoTargets :
    /\ nCalls < MaxCalls
    /\ Called([op |-> "ChangePhoto", media |-> media, target |-> target])
    /\ Put(MediaPayload(media),
           IF target.isEntry
             THEN (IF GetPhotoEditLink(target).present
                     THEN GetPhotoEditLink(target).href
                     ELSE None)
             ELSE target.url,
           None)
    /\ UNCHANGED <<server, contact_list, query>>

ChangePhoto ==
  \E media \in Medias, target \in PhotoTargets :
    /\ nCalls < MaxCalls
    /\ Called([op |-> "ChangePhoto", media |-> media, target |-> target])
    /\ IF target.isEntry /\ ~GetPhotoEditLink(target).present
         THEN NoRequest(LocalError)
         ELSE Put(MediaPayload(media),
                  IF target.isEntry THEN GetPhotoEditLink(target).href
                                    ELSE target.url,
                  None)
    /\ UNCHANGED <<server, contact_list, query>>

\* GetPhoto without the test of the URL before the GET.
GetPhoto_AlwaysFetches ==
  \E target \in PhotoTargets :
    /\ nCalls < MaxCalls
    /\ Called([op |-> "GetPhoto", target |-> target])
    /\ LET url == IF target.isEntry
                    THEN (IF GetPhotoLink(target).present
                            THEN GetPhotoLink(target).href
                            ELSE None)
                    ELSE target.url
       IN  Get(url, "str")
    /\ UNCHANGED <<server, contact_list, query>>

GetPhoto ==
  \E target \in PhotoTargets :
    /\ nCalls < MaxCalls
    /\ Called([op |-> "GetPhoto", target |-> target])
    /\ LET url == IF target.isEntry
                    THEN (IF GetPhotoLink(target).present
                            THEN GetPhotoLink(target).href
                            ELSE None)
                    ELSE target.url
       IN  IF Truthy(url) THEN Get(url, "str")
                          ELSE NoRequest(ReturnedNone)
    /\ UNCHANGED <<server, contact_list, query>>

DeletePhoto ==
  \E target \in PhotoTargets :
    /\ nCalls < MaxCalls
    /\ Called([op |-> "DeletePhoto", target |-> target])
    /\ IF target.isEntry /\ ~GetPhotoEditLink(target).present
         THEN NoRequest(LocalError)
         ELSE LET url == IF target.isEntry
                           THEN GetPhotoEditLink(target).href
                           ELSE target.url
              IN  IF Truthy(url)
                    THEN \E r \in Responses :
                           /\ sent' = <<[method |-> "DELETE", uri |-> url,
                                         body |-> None]>>
                           /\ response' = r
                           /\ outcome' = IF Is2xx(r.status) THEN ReturnedNone
                                                            ELSE Raised(r)
                           /\ nRequests' = nRequests + 1
                    ELSE NoRequest(ReturnedNone)
    /\ UNCHANGED <<server, contact_list, query>>

GetProfilesFeed ==
  \E uri \in FeedUris :
    /\ nCalls < MaxCalls
    /\ Called([op |-> "GetProfilesFeed", uri |-> uri])
    /\ Get(IF Truthy(uri) THEN uri
                          ELSE GetFeedUri("profiles", None, "full", None),
           "ProfilesFeedFromString")
    /\ UNCHANGED <<server, contact_list, query>>

GetProfile ==
  \E uri \in EntryUris :
    /\ nCalls < MaxCalls
    /\ Called([op |-> "GetProfile", uri |-> uri])
    /\ Get(uri, "ProfileEntryFromString")
    /\ UNCHANGED <<server, contact_list, query>>

\* UpdateProfile handing the edit URI to Put as the caller gave it.
UpdateProfile_RawUri ==
  \E edit_uri \in EditUris :
    /\ nCalls < MaxCalls
    /\ Called([op |-> "UpdateProfile", uri |-> edit_uri])
    /\ Put("updated_profile", edit_uri, "ProfileEntryFromString")
    /\ UNCHANGED <<server, contact_list, query>>

UpdateProfile ==
  \E edit_uri \in EditUris :
    /\ nCalls < MaxCalls
    /\ Called([op |-> "UpdateProfile", uri |-> edit_uri])
    /\ Put("updated_profile", CleanUri(edit_uri), "ProfileEntryFromString")
    /\ UNCHANGED <<server, contact_list, query>>

ExecuteBatch ==
  \E url \in BatchUrls, converter \in BatchConverters :
    /\ nCalls < MaxCalls
    /\ Called([op |-> "ExecuteBatch", uri |-> url, converter |-> converter])
    /\ Post("batch_feed", url, converter)
    /\ UNCHANGED <<server, contact_list, query>>

ExecuteBatchProfiles ==
  \E url \in BatchUrls, converter \in BatchConverters :
    /\ nCalls < MaxCalls
    /\ Called([op |-> "ExecuteBatchProfiles", uri |-> url,
               converter |-> converter])
    /\ Post("batch_feed", url, converter)
    /\ UNCHANGED <<server, contact_list, query>>

---------------------------------------------------------------------------
(* Query builders *)

ContactsQuery ==
  \E feed \in QueryFeeds, group \in Groups :
    /\ nCalls < MaxCalls
    /\ query' = [class |-> "ContactsQuery", feed_arg |-> feed,
                 feed |-> IF Truthy(feed) THEN feed
                          ELSE "/m8/feeds/contacts/default/full",
                 group |-> IF Truthy(group) THEN group ELSE None]
    /\ nCalls' = nCalls + 1
    /\ UNCHANGED <<server, contact_list, call, sent, response, outcome,
                   nRequests, nResolved, nUnchecked>>

GroupsQuery ==
  \E feed \in QueryFeeds :
    /\ nCalls < MaxCalls
    /\ query' = [class |-> "GroupsQuery", feed_arg |-> feed,
                 feed |-> IF Truthy(feed) THEN feed
                          ELSE "/m8/feeds/groups/default/full",
                 group |-> None]
    /\ nCalls' = nCalls + 1
    /\ UNCHANGED <<server, contact_list, call, sent, response, outcome,
                   nRequests, nResolved, nUnchecked>>

ProfilesQuery ==
  \E feed \in QueryFeeds :
    /\ nCalls < MaxCalls
    /\ query' = [class |-> "ProfilesQuery", feed_arg |-> feed,
                 feed |-> IF Truthy(feed) THEN feed
                          ELSE "/m8/feeds/profiles/default/full",
                 group |-> None]
    /\ nCalls' = nCalls + 1
    /\ UNCHANGED <<server, contact_list, call, sent, response, outcome,
                   nRequests, nResolved, nUnchecked>>

---------------------------------------------------------------------------

Next ==
  \/ CallGetFeedUri
  \/ CallCleanUri
  \/ GetContactsFeed
  \/ GetContact
  \/ CreateContact
  \/ UpdateContact
  \/ DeleteContact
  \/ GetGroupsFeed
  \/ CreateGroup
  \/ UpdateGroup
  \/ DeleteGroup
  \/ ChangePhoto
  \/ GetPhoto
  \/ DeletePhoto
  \/ GetProfilesFeed
  \/ GetProfile
  \/ UpdateProfile
  \/ ExecuteBatch
  \/ ExecuteBatchProfiles
  \/ ContactsQuery
  \/ GroupsQuery
  \/ ProfilesQuery

Spec == Init /\ [][Next]_vars

---------------------------------------------------------------------------
(* Properties *)

FeedRoot == "/m8/feeds/"

HttpPrefix == "http://" \o server

\* C1: GetFeedUri returns P + '/m8/feeds/' + kind + '/' + L + '/' +
\* projection, where L is the list identifier supplied (the client's
\* contact_list when none is: None or ''), prefixed with 'domain/' exactly
\* when kind is 'profiles', and P is scheme + '://' + server when a scheme
\* is supplied and empty (a path starting with '/') when it is not.
C1_FeedUriShape ==
  call.op = "GetFeedUri" =>
    LET L0 == IF call.list_arg \in {None, ""} THEN contact_list
                                              ELSE call.list_arg
        L  == IF call.kind = "profiles" THEN "domain/" \o L0 ELSE L0
        P  == IF call.scheme \in {None, ""} THEN ""
                                            ELSE call.scheme \o "://" \o server
    IN  /\ outcome.kind = "return"
        /\ outcome.body =
             P \o FeedRoot \o call.kind \o "/" \o L \o "/" \o call.projection
        /\ (call.scheme \in {None, ""} => StartsWith(outcome.body, FeedRoot))
        /\ sent = <<>>

C1_Witness ==
  /\ call.op = "GetFeedUri"
  /\ call.kind = "profiles"
  /\ call.list_arg = None
  /\ call.scheme = "https"
  /\ outcome.body =
       "https://example.org/m8/feeds/profiles/domain/joe@example.org/base/12345"

\* C2: _CleanUri(u) is u without its leading 'http://' + server, and that
\* result starts with '/', when u begins with that prefix; otherwise it is u
\* unchanged.
C2_CleanUriContract ==
  call.op = "_CleanUri" =>
    IF StartsWith(call.uri, HttpPrefix)
      THEN /\ outcome.body = SliceFrom(call.uri, Len(HttpPrefix))
           /\ StartsWith(outcome.body, "/")
      ELSE outcome.body = call.uri

\* C3: UpdateContact, UpdateGroup, UpdateProfile, DeleteContact and
\* DeleteGroup hand exactly _CleanUri(edit_uri) to the transport's Put or
\* Delete, in one request.
C3_EditUriNormalized ==
  call.op \in UpdateOps \cup DeleteOps =>
    /\ Len(sent) = 1
    /\ sent[1].method = (IF call.op \in UpdateOps THEN "PUT" ELSE "DELETE")
    /\ sent[1].uri = CleanUri(call.uri)
    /\ (StartsWith(call.uri, HttpPrefix) => sent[1].uri # call.uri)

C3_Witness ==
  /\ call.op = "UpdateProfile"
  /\ call.uri = HttpPrefix \o EntryPath
  /\ Len(sent) = 1
  /\ sent[1].method = "PUT"
  /\ sent[1].uri = EntryPath

\* C4: CreateContact and CreateGroup issue exactly one POST: to the default
\* feed of their kind for the client's contact list when no insert URI is
\* given, to the insert URI when one is.
C4_CreateDefaultFeed ==
  call.op \in CreateOps =>
    LET kind == IF call.op = "CreateContact" THEN "contacts" ELSE "groups"
    IN  /\ Len(sent) = 1
        /\ sent[1].method = "POST"
        /\ sent[1].uri =
             (IF call.uri \in {None, ""}
                THEN FeedRoot \o kind \o "/" \o contact_list \o "/full"
                ELSE call.uri)

C4_Witness ==
  /\ call.op = "CreateGroup"
  /\ call.uri = None
  /\ Len(sent) = 1
  /\ sent[1].method = "POST"
  /\ sent[1].uri = "/m8/feeds/groups/joe@example.org/full"

CrudOps == ListOps \cup GetOps \cup CreateOps \cup UpdateOps \cup DeleteOps

\* C5: when the transport reports a non-2xx response to the request of a
\* get, create, update or delete operation, the operation ends with a
\* request error carrying that response's status, reason and body, and that
\* request is the only one the operation issued.
C5_RequestErrorVerbatim ==
  (call.op \in CrudOps /\ Len(sent) >= 1 /\ ~Is2xx(response.status)) =>
    /\ outcome.kind = "RequestError"
    /\ outcome.status = response.status
    /\ outcome.reason = response.reason
    /\ outcome.body = response.body
    /\ Len(sent) = 1

C5_Witness ==
  /\ call.op = "DeleteContact"
  /\ response.status = 404
  /\ outcome.kind = "RequestError"
  /\ outcome.status = 404
  /\ outcome.reason = "Not Found"
  /\ outcome.body = "no such entry"
  /\ Len(sent) = 1

\* C6: GetPhoto on a contact entry without a photo link returns None and
\* issues no request; whenever a non-empty URL resolves it issues exactly
\* one GET to that URL and returns the response body as it is.
C6_GetPhoto ==
  call.op = "GetPhoto" =>
    /\ (call.target.isEntry /\ ~call.target.photo_link.present =>
          sent = <<>> /\ outcome = ReturnedNone)
    /\ (Truthy(PhotoHref(call.target)) =>
          /\ Len(sent) = 1
          /\ sent[1].method = "GET"
          /\ sent[1].uri = PhotoHref(call.target)
          /\ (Is2xx(response.status) =>
                outcome = Returned("str", response.body)))

C6_Witness ==
  /\ call.op = "GetPhoto"
  /\ call.target.isEntry
  /\ ~call.target.photo_link.present
  /\ call.target.photo_edit_link.present
  /\ sent = <<>>
  /\ outcome = ReturnedNone

\* C7: DeletePhoto issues no request and completes normally whenever no
\* photo edit URI resolves from its argument (an entry without a photo edit
\* link, or an empty URL); otherwise it issues exactly one DELETE to the
\* resolved URI.
C7_DeletePhotoNoop ==
  call.op = "DeletePhoto" =>
    IF Truthy(PhotoEditHref(call.target))
      THEN /\ Len(sent) = 1
           /\ sent[1].method = "DELETE"
           /\ sent[1].uri = PhotoEditHref(call.target)
      ELSE /\ sent = <<>>
           /\ outcome.kind = "return"

\* C8: ChangePhoto on a contact entry without a photo edit link fails with
\* a local error, not a request error, and sends no PUT.
C8_ChangePhotoLookupError ==
  (/\ call.op = "ChangePhoto"
   /\ call.target.isEntry
   /\ ~call.target.photo_edit_link.present) =>
    /\ outcome.kind = "LocalError"
    /\ outcome.kind # "RequestError"
    /\ sent = <<>>
    /\ response = NoResponse

C8_Witness ==
  /\ call.op = "ChangePhoto"
  /\ call.target.isEntry
  /\ ~call.target.photo_edit_link.present
  /\ call.target.photo_link.present
  /\ outcome = LocalError
  /\ sent = <<>>

ProfilesRoot == "/m8/feeds/profiles/domain/"

\* C9: every default profiles feed path follows
\* /m8/feeds/profiles/domain/<listId>/<projection>: the one GetFeedUri
\* builds for 'profiles', the one GetProfilesFeed requests without a URI,
\* and the one a ProfilesQuery built without a feed holds.
C9_ProfilesFeedConvention ==
  /\ (call.op = "GetFeedUri" /\ call.kind = "profiles"
        /\ call.scheme \in {None, ""} =>
          StartsWith(outcome.body, ProfilesRoot))
  /\ (call.op = "GetProfilesFeed" /\ call.uri \in {None, ""} =>
          Len(sent) = 1 /\ StartsWith(sent[1].uri, ProfilesRoot))
  /\ (query.class = "ProfilesQuery" /\ query.feed_arg \in {None, ""} =>
          StartsWith(query.feed, ProfilesRoot))

\* C10 as stated: every facade call issues at most one request, exactly one
\* when its target URI resolves, and the requests issued so far are as many
\* as the calls whose URI resolved.
C10_RequestsEqualResolved ==
  /\ Len(sent) <= 1
  /\ (TargetResolves(call) => Len(sent) = 1)
  /\ nRequests = nResolved

\* C10, amended: every facade call issues at most one request, exactly one
\* when its target URI resolves, none is answered from an earlier call's
\* result, and the requests issued so far are as many as the calls whose URI
\* resolved plus the get, update, delete, batch and ChangePhoto calls made
\* with an empty URI, which those operations hand on unchecked.
C10_OneRequestPerCall ==
  /\ Len(sent) <= 1
  /\ (TargetResolves(call) => Len(sent) = 1)
  /\ (call.op \in FacadeOps /\ ~TargetResolves(call) /\ Len(sent) = 1 =>
        PassesEmptyUri(call) /\ sent[1].uri = "")
  /\ nRequests = nResolved + nUnchecked
  /\ nRequests <= nCalls

C10_Witness ==
  /\ nCalls = 2
  /\ nRequests = 2
  /\ nResolved = 2
  /\ call.op = "GetContactsFeed"
  /\ call.uri = None
  /\ Len(sent) = 1
  /\ sent[1].method = "GET"

=============================================================================
